---- MODULE Spec2Model ----
(***************************************************************************)
(* led-text-scroller: the lifecycle controller (start / stop / stop_worker *)
(* of src/app.py), the transmission loop (scroller_worker) with its scroll *)
(* position, the senders (send_ddp_frame / _ddp_header,                    *)
(* send_wled_realtime_frame, send_simple_udp_frame) and the pixel          *)
(* reorderer (remap_serpentine).                                           *)
(*                                                                         *)
(* Request handlers run on the gthread pool of src/gunicorn.conf.py; each  *)
(* pool thread is a process of the model with its own position (tpc).      *)
(* Every threading.Thread created by start() is a worker of the model,     *)
(* numbered in the order of creation.                                      *)
(***************************************************************************)
EXTENDS Integers, Sequences, FiniteSets, TLC

\* ------------------------------------------------------------------ bounds
\* request-handling threads of the pool that are modelled
NumThreads == 2
\* /start requests accepted over one run (each creates one worker thread)
MaxStarts == 2
\* longest payload handed to send_ddp_frame
MaxLen == 3603
\* widest and tallest small matrix handed to remap_serpentine
MaxW == 3
MaxH == 4
\* widest text, in pixels, handed to the scroll loop
MaxTextW == 2
\* frames one scroll loop is followed for
MaxFrames == 135

\* ------------------------------------------------------- program constants
MATRIX_H == 16
MATRIX_W == 64
MAX_PAYLOAD == 1200

Threads == 1..NumThreads
Workers == 1..MaxStarts
\* SENDER_THREAD = None, STATE_LOCK unlocked
None == 0

\* size of one frame: Image.tobytes() of an RGB image MATRIX_W x MATRIX_H
FrameBytes == MATRIX_W * MATRIX_H * 3

Min(a, b) == IF a < b THEN a ELSE b

\* the configurations a /start request may carry: mode is payload["mode"]
\* ("wled_udp" and every other string take the same single-sendto branch as
\* "simple"; "udp9" is a string no branch and no port default names),
\* display_mode is payload["display_mode"]
Cfgs ==
    { [mode |-> "ddp",    display_mode |-> "scroll"],
      [mode |-> "simple", display_mode |-> "static"],
      [mode |-> "udp9",   display_mode |-> "scroll"] }
NoCfg == [mode |-> "none", display_mode |-> "none"]

VARIABLES
    SENDER_THREAD,  \* the worker the handle names, or None
    STOP_EVENT,     \* threading.Event: TRUE when set
    STATE_LOCK,     \* the thread holding the lock, or None
    tpc,            \* request thread -> position in start() / stop()
    top,            \* request thread -> "start" | "stop" | "none"
    tcfg,           \* request thread -> cfg built by start()
    nstarts,        \* /start requests accepted so far
    wpc,            \* worker -> position in scroller_worker
    wcfg,           \* worker -> the cfg it runs with (NoCfg once it has ended)
    wopened,        \* worker -> sockets it has opened
    wclosed,        \* worker -> sock.close() calls it has made
    wexit,          \* worker -> why it left the loop
    woff,           \* worker -> offset inside send_ddp_frame (0 outside it)
    \* one call of send_ddp_frame, followed chunk by chunk
    rgb_bytes,      \* the payload, a sequence of bytes
    channel,        \* the channel argument
    seq,            \* the seq argument
    offset,         \* the local offset
    idx,            \* the local idx
    ddp_pc,         \* "idle" (no call) | "loop" | "done"
    sent,           \* the datagrams handed to sock.sendto(), in order
    mode,           \* the sender the call goes to: cfg["mode"], "none" if no call
    \* one call of remap_serpentine, followed row by row, and a second call
    \* on its result
    frame,          \* the buffer handed to the first call
    width,          \* the width argument
    height,         \* the height argument
    serpentine,     \* the serpentine argument
    arg_bytes,      \* the rgb_bytes argument of the call being followed
    out,            \* the local out
    y,              \* the loop variable y: rows 0 .. y-1 are done
    rev,            \* the local rev
    x,              \* the loop variable x: pixels 0 .. x-1 of the row are done
    payload,        \* what the first call returned
    again,          \* what the second call, on payload, returned
    rm_pc,          \* "idle" | "call" | "loop" | "rev" | "ret1" | "call2" |
                    \* "loop2" | "rev2" | "done"
    \* the scroll branch of one scroller_worker
    text_w,         \* the local text_w
    total_steps,    \* the local total_steps
    step,           \* the local step
    sc_pc,          \* "idle" | "check" | "render" | "send" | "sleep" | "done"
    shift_px,       \* the shift_px of the frame rendered last (-1: none yet)
    nframes         \* frames sent so far

lvars == << SENDER_THREAD, STOP_EVENT, STATE_LOCK, tpc, top, tcfg, nstarts,
            wpc, wcfg, wopened, wclosed, wexit, woff >>
dvars == << rgb_bytes, channel, seq, offset, idx, ddp_pc, sent, mode >>
rvars == << frame, width, height, serpentine, arg_bytes, out, y, rev, x,
            payload, again, rm_pc >>
svars == << text_w, total_steps, step, sc_pc, shift_px, nframes >>
ovars == << rvars, svars >>
vars == << lvars, dvars, ovars >>

shared == << SENDER_THREAD, STOP_EVENT, STATE_LOCK >>
tvars == << tpc, top, tcfg, nstarts >>
wvars == << wpc, wcfg, wopened, wclosed, wexit, woff >>

\* ------------------------------------------------------------ DDP encoder
\* Python's s[a:b] for 0 <= a: both ends are clamped to len(s)
Slice(s, a, b) == SubSeq(s, a + 1, Min(b, Len(s)))

\* a chunk size that ignores what remains of the payload
DdpPayFixed(total, off) == MAX_PAYLOAD - (MAX_PAYLOAD % 3)

\* no chunking: the rest of the payload in one datagram
DdpPayWhole(total, off) == total - off

\* pay = min(MAX_PAYLOAD - (MAX_PAYLOAD % 3), remain)
DdpPay(total, off) == Min(MAX_PAYLOAD - (MAX_PAYLOAD % 3), total - off)

\* a PUSH test that the last chunk never passes
DdpPushNever(total, off, pay) == (off + pay) > total

\* push = (offset + pay) >= total
DdpPush(total, off, pay) == (off + pay) >= total

\* a sequence byte that stays at the seed for every chunk of the frame
DdpSeqConst(sd, i) == sd % 256

\* (seq + idx) & 0xFF, the seq argument of the _ddp_header call
DdpSeq(sd, i) == (sd + i) % 256

\* _ddp_header: flags = 0x01, flags |= 0x40 when push, then the ten bytes
\* (x >> k) & 0xFF is (x \div 2^k) % 256
_ddp_header(offset_bytes, data_len, chan, sq, push) ==
    LET flags == IF push THEN 1 + 64 ELSE 1 IN
    << flags,
       chan % 256,
       sq % 256,
       0,
       (offset_bytes \div 16777216) % 256,
       (offset_bytes \div 65536) % 256,
       (offset_bytes \div 256) % 256,
       offset_bytes % 256,
       (data_len \div 256) % 256,
       data_len % 256 >>

\* the payload lengths tried: the short ones, those around every multiple of
\* MAX_PAYLOAD, 3000 and one full matrix frame
Lens ==
    {n \in 0..MaxLen :
        \/ n <= 6
        \/ n % MAX_PAYLOAD <= 3
        \/ n % MAX_PAYLOAD >= MAX_PAYLOAD - 3
        \/ n = 3000
        \/ n = FrameBytes}
\* byte i (from 1) of the payload of pattern p
Patterns == {1, 7}
Payloads == {[i \in 1..n |-> (i * p) % 256] : n \in Lens, p \in Patterns}
Channels == {1, 255}
Seeds == {0, 254}

\* ------------------------------------------------------------- lifecycle
\* threading.Thread.is_alive(): started and run() not yet returned
IsAlive(w) == w # None /\ wpc[w] \notin {"unborn", "done"}

\* the socket of worker w is open
SockOpen(w) == wopened[w] > wclosed[w]

\* the id the next threading.Thread(...) gets
NextWorker == Cardinality({w \in Workers : wpc[w] # "unborn"}) + 1

LifecycleInit ==
    /\ SENDER_THREAD = None
    /\ STOP_EVENT = FALSE
    /\ STATE_LOCK = None
    /\ tpc = [t \in Threads |-> "idle"]
    /\ top = [t \in Threads |-> "none"]
    /\ tcfg = [t \in Threads |-> NoCfg]
    /\ nstarts = 0
    /\ wpc = [w \in Workers |-> "unborn"]
    /\ wcfg = [w \in Workers |-> NoCfg]
    /\ wopened = [w \in Workers |-> 0]
    /\ wclosed = [w \in Workers |-> 0]
    /\ wexit = [w \in Workers |-> "none"]
    /\ woff = [w \in Workers |-> 0]

\* no send_ddp_frame call is being followed
DdpIdle ==
    /\ rgb_bytes = << >>
    /\ channel = 1
    /\ seq = 0
    /\ offset = 0
    /\ idx = 0
    /\ ddp_pc = "idle"
    /\ sent = << >>
    /\ mode = "none"

\* no remap_serpentine call is being followed
RemapIdle ==
    /\ frame = << >>
    /\ width = 0
    /\ height = 0
    /\ serpentine = FALSE
    /\ arg_bytes = << >>
    /\ out = << >>
    /\ y = 0
    /\ rev = << >>
    /\ x = 0
    /\ payload = << >>
    /\ again = << >>
    /\ rm_pc = "idle"

\* no scroll loop is being followed
ScrollIdle ==
    /\ text_w = 0
    /\ total_steps = 0
    /\ step = 0
    /\ sc_pc = "idle"
    /\ shift_px = -1
    /\ nframes = 0

Init == LifecycleInit /\ DdpIdle /\ RemapIdle /\ ScrollIdle

\* ---- request handlers ----------------------------------------------------
\* where the handler goes on once stop_worker() has returned
AfterStopWorker(op) == IF op = "start" THEN "spawn" ELSE "ret"

\* stop_worker() without its last line: the handle is left as it was
HandleKept == SENDER_THREAD

\* SENDER_THREAD = None at the end of stop_worker()
HandleAfterStop == None

\* stop_worker() without STOP_EVENT.clear(): the event stays as it is
StopWorkerLeaveNoClear(t, op) ==
    /\ STOP_EVENT' = STOP_EVENT
    /\ SENDER_THREAD' = HandleAfterStop
    /\ STATE_LOCK' = None
    /\ tpc' = [tpc EXCEPT ![t] = AfterStopWorker(op)]

\* STOP_EVENT.clear(); SENDER_THREAD = None; the with block releases the lock
StopWorkerLeave(t, op) ==
    /\ STOP_EVENT' = FALSE
    /\ SENDER_THREAD' = HandleAfterStop
    /\ STATE_LOCK' = None
    /\ tpc' = [tpc EXCEPT ![t] = AfterStopWorker(op)]

\* stop_worker() up to the join: take the lock (a handler that waits for it
\* has done nothing yet); a live worker gets STOP_EVENT.set() and the
\* thread goes on to join(); otherwise the function finishes at once
StopWorkerEnter(t, op) ==
    /\ tpc[t] = "idle"
    /\ STATE_LOCK = None
    /\ top' = [top EXCEPT ![t] = op]
    /\ IF IsAlive(SENDER_THREAD)
         THEN /\ STATE_LOCK' = t
              /\ STOP_EVENT' = TRUE
              /\ tpc' = [tpc EXCEPT ![t] = "join"]
              /\ UNCHANGED SENDER_THREAD
         ELSE StopWorkerLeave(t, op)

\* POST /start: the payload is read into the locals that make up cfg, then
\* stop_worker() is called
StartRequest(t, cfg) ==
    /\ nstarts < MaxStarts
    /\ nstarts' = nstarts + 1
    /\ tcfg' = [tcfg EXCEPT ![t] = cfg]
    /\ StopWorkerEnter(t, "start")
    /\ UNCHANGED wvars
    /\ UNCHANGED << dvars, ovars >>

\* POST /stop: stop_worker() is called
StopRequest(t) ==
    /\ StopWorkerEnter(t, "stop")
    /\ UNCHANGED << tcfg, nstarts, wvars >>
    /\ UNCHANGED << dvars, ovars >>

\* SENDER_THREAD.join(timeout=2.0) returns because the worker has ended
JoinReturn(t) ==
    /\ tpc[t] = "join"
    /\ ~IsAlive(SENDER_THREAD)
    /\ StopWorkerLeave(t, top[t])
    /\ UNCHANGED << top, tcfg, nstarts, wvars >>
    /\ UNCHANGED << dvars, ovars >>

\* the steps of scroller_worker whose duration nothing bounds: rendering a
\* frame (the emoji compositor may fetch glyph images) and sendto(); the
\* sleeps are at most one second
SlowOps == {"render", "send"}

\* join() called without a timeout: it never returns while the worker lives
JoinNoTimeout(t) ==
    /\ FALSE
    /\ UNCHANGED vars

\* SENDER_THREAD.join(timeout=2.0) returns because two seconds have passed
\* with the worker still inside one of its unbounded steps
JoinTimeout(t) ==
    /\ tpc[t] = "join"
    /\ IsAlive(SENDER_THREAD)
    /\ wpc[SENDER_THREAD] \in SlowOps
    /\ StopWorkerLeave(t, top[t])
    /\ UNCHANGED << top, tcfg, nstarts, wvars >>
    /\ UNCHANGED << dvars, ovars >>

\* start(): with STATE_LOCK: STOP_EVENT.clear(); SENDER_THREAD = Thread(...);
\* SENDER_THREAD.start()
StartSpawn(t) ==
    /\ tpc[t] = "spawn"
    /\ STATE_LOCK = None
    /\ LET w == NextWorker IN
         /\ STOP_EVENT' = FALSE
         /\ SENDER_THREAD' = w
         /\ wpc' = [wpc EXCEPT ![w] = "init"]
         /\ wcfg' = [wcfg EXCEPT ![w] = tcfg[t]]
    /\ tpc' = [tpc EXCEPT ![t] = "ret"]
    /\ tcfg' = [tcfg EXCEPT ![t] = NoCfg]
    /\ UNCHANGED << STATE_LOCK, top, nstarts, wopened, wclosed, wexit, woff >>
    /\ UNCHANGED << dvars, ovars >>

\* return jsonify({"ok": True})
Return(t) ==
    /\ tpc[t] = "ret"
    /\ tpc' = [tpc EXCEPT ![t] = "idle"]
    /\ top' = [top EXCEPT ![t] = "none"]
    /\ UNCHANGED << shared, tcfg, nstarts, wvars >>
    /\ UNCHANGED << dvars, ovars >>

\* ---- scroller_worker -----------------------------------------------------
\* a worker that ends without a finally block: the socket is never closed
ExitNoClose(w, why) ==
    /\ wpc' = [wpc EXCEPT ![w] = "done"]
    /\ wcfg' = [wcfg EXCEPT ![w] = NoCfg]
    /\ wexit' = [wexit EXCEPT ![w] = why]
    /\ woff' = [woff EXCEPT ![w] = 0]
    /\ UNCHANGED wclosed

\* the finally block: sock.close(), then the thread ends
Finally(w, why) ==
    /\ wclosed' = [wclosed EXCEPT ![w] = @ + 1]
    /\ wpc' = [wpc EXCEPT ![w] = "done"]
    /\ wcfg' = [wcfg EXCEPT ![w] = NoCfg]
    /\ wexit' = [wexit EXCEPT ![w] = why]
    /\ woff' = [woff EXCEPT ![w] = 0]

\* cfg unpacking, font loading (a failure falls back to the default font)
\* and socket creation, all before the try block
WorkerInit(w) ==
    /\ wpc[w] = "init"
    /\ wopened' = [wopened EXCEPT ![w] = @ + 1]
    /\ wpc' = [wpc EXCEPT ![w] = "check"]
    /\ UNCHANGED << shared, tvars, wcfg, wclosed, wexit, woff >>
    /\ UNCHANGED << dvars, ovars >>

\* tuple(cfg["color"]) raises on a payload color that is not iterable: the
\* thread ends before the socket is created
WorkerInitFail(w) ==
    /\ wpc[w] = "init"
    /\ wpc' = [wpc EXCEPT ![w] = "done"]
    /\ wexit' = [wexit EXCEPT ![w] = "cfg_error"]
    /\ wcfg' = [wcfg EXCEPT ![w] = NoCfg]
    /\ UNCHANGED << shared, tvars, wopened, wclosed, woff >>
    /\ UNCHANGED << dvars, ovars >>

\* while not STOP_EVENT.is_set()
LoopCond == ~STOP_EVENT

\* the loop head of either display mode
WorkerCheck(w) ==
    /\ wpc[w] = "check"
    /\ IF LoopCond
         THEN /\ wpc' = [wpc EXCEPT ![w] = "render"]
              /\ UNCHANGED << wcfg, wclosed, wexit, woff >>
         ELSE Finally(w, "cancelled")
    /\ UNCHANGED << shared, tvars, wopened >>
    /\ UNCHANGED << dvars, ovars >>

\* render_static_frame / render_scroll_window_frame and remap_serpentine
WorkerRender(w) ==
    /\ wpc[w] = "render"
    /\ wpc' = [wpc EXCEPT ![w] = "send"]
    /\ woff' = [woff EXCEPT ![w] = 0]
    /\ UNCHANGED << shared, tvars, wcfg, wopened, wclosed, wexit >>
    /\ UNCHANGED << dvars, ovars >>

\* the renderer raises; the finally block runs
WorkerRenderFail(w) ==
    /\ wpc[w] = "render"
    /\ Finally(w, "render_error")
    /\ UNCHANGED << shared, tvars, wopened >>
    /\ UNCHANGED << dvars, ovars >>

\* one sock.sendto(): a chunk of send_ddp_frame in ddp mode, the whole frame
\* in every other mode
WorkerSend(w) ==
    /\ wpc[w] = "send"
    /\ IF wcfg[w].mode = "ddp"
         THEN LET pay == DdpPay(FrameBytes, woff[w]) IN
              IF woff[w] + pay < FrameBytes
                THEN /\ woff' = [woff EXCEPT ![w] = @ + pay]
                     /\ UNCHANGED wpc
                ELSE /\ woff' = [woff EXCEPT ![w] = 0]
                     /\ wpc' = [wpc EXCEPT ![w] = "sleep"]
         ELSE /\ wpc' = [wpc EXCEPT ![w] = "sleep"]
              /\ UNCHANGED woff
    /\ UNCHANGED << shared, tvars, wcfg, wopened, wclosed, wexit >>
    /\ UNCHANGED << dvars, ovars >>

\* a send error that is logged and retried: the loop keeps sending
WorkerSendFailRetry(w) ==
    /\ wpc[w] = "send"
    /\ wexit' = [wexit EXCEPT ![w] = "send_error"]
    /\ UNCHANGED << shared, tvars, wpc, wcfg, wopened, wclosed, woff >>
    /\ UNCHANGED << dvars, ovars >>

\* sock.sendto() raises; the finally block runs
WorkerSendFail(w) ==
    /\ wpc[w] = "send"
    /\ Finally(w, "send_error")
    /\ UNCHANGED << shared, tvars, wopened >>
    /\ UNCHANGED << dvars, ovars >>

\* time.sleep(...), then back to the loop head
WorkerSleep(w) ==
    /\ wpc[w] = "sleep"
    /\ wpc' = [wpc EXCEPT ![w] = "check"]
    /\ UNCHANGED << shared, tvars, wcfg, wopened, wclosed, wexit, woff >>
    /\ UNCHANGED << dvars, ovars >>

Next ==
    \/ \E t \in Threads, cfg \in Cfgs : StartRequest(t, cfg)
    \/ \E t \in Threads : StopRequest(t)
    \/ \E t \in Threads : JoinReturn(t)
    \/ \E t \in Threads : JoinTimeout(t)
    \/ \E t \in Threads : StartSpawn(t)
    \/ \E t \in Threads : Return(t)
    \/ \E w \in Workers : WorkerInit(w)
    \/ \E w \in Workers : WorkerInitFail(w)
    \/ \E w \in Workers : WorkerCheck(w)
    \/ \E w \in Workers : WorkerRender(w)
    \/ \E w \in Workers : WorkerRenderFail(w)
    \/ \E w \in Workers : WorkerSend(w)
    \/ \E w \in Workers : WorkerSendFail(w)
    \/ \E w \in Workers : WorkerSleep(w)

Spec == Init /\ [][Next]_vars

\* ---- send_ddp_frame ------------------------------------------------------
\* the call send_ddp_frame(sock, ip, port, rgb_bytes, channel, seq)
DdpInit ==
    /\ LifecycleInit
    /\ rgb_bytes \in Payloads
    /\ channel \in Channels
    /\ seq \in Seeds
    /\ offset = 0
    /\ idx = 0
    /\ ddp_pc = "loop"
    /\ sent = << >>
    /\ mode = "ddp"
    /\ RemapIdle
    /\ ScrollIdle

\* one pass of the while loop: header, sendto, offset += pay, idx += 1
DdpSendChunk ==
    /\ ddp_pc = "loop"
    /\ offset < Len(rgb_bytes)
    /\ LET total == Len(rgb_bytes)
           pay == DdpPay(total, offset)
           push == DdpPush(total, offset, pay)
           header == _ddp_header(offset, pay, channel, DdpSeq(seq, idx), push)
       IN /\ sent' = Append(sent, header \o Slice(rgb_bytes, offset, offset + pay))
          /\ offset' = offset + pay
          /\ idx' = idx + 1
    /\ UNCHANGED << rgb_bytes, channel, seq, ddp_pc, mode >>
    /\ UNCHANGED << lvars, ovars >>

\* the loop condition fails and the function returns
DdpReturn ==
    /\ ddp_pc = "loop"
    /\ ~(offset < Len(rgb_bytes))
    /\ ddp_pc' = "done"
    /\ UNCHANGED << rgb_bytes, channel, seq, offset, idx, sent, mode >>
    /\ UNCHANGED << lvars, ovars >>

DdpNext ==
    \/ DdpSendChunk
    \/ DdpReturn

DdpSpec == DdpInit /\ [][DdpNext]_vars

\* ---- the sender calls of scroller_worker ---------------------------------
\* payload["mode"] as start() reads it: any string; the three the branches
\* and the port defaults name, and one they do not
Modes == {"ddp", "wled_udp", "simple", "udp9"}

\* the buffers handed to a sender: whole pixels, at least one
PixelBuffers == {b \in Payloads : Len(b) > 0 /\ Len(b) % 3 = 0}

\* the worker is about to send payload: if mode == "ddp" ... elif ... else
SendInit ==
    /\ LifecycleInit
    /\ rgb_bytes \in PixelBuffers
    /\ channel \in Channels
    /\ seq = 0
    /\ offset = 0
    /\ idx = 0
    /\ ddp_pc = "call"
    /\ sent = << >>
    /\ mode \in Modes
    /\ RemapIdle
    /\ ScrollIdle

\* if mode == "ddp": send_ddp_frame(sock, ip, port, payload, channel, seq=0)
SendDdp ==
    /\ ddp_pc = "call"
    /\ mode = "ddp"
    /\ ddp_pc' = "loop"
    /\ UNCHANGED << rgb_bytes, channel, seq, offset, idx, sent, mode >>
    /\ UNCHANGED << lvars, ovars >>

\* elif mode == "wled_udp": send_wled_realtime_frame: one sendto of rgb_bytes
send_wled_realtime_frame ==
    /\ ddp_pc = "call"
    /\ mode = "wled_udp"
    /\ sent' = Append(sent, rgb_bytes)
    /\ ddp_pc' = "done"
    /\ UNCHANGED << rgb_bytes, channel, seq, offset, idx, mode >>
    /\ UNCHANGED << lvars, ovars >>

\* else: send_simple_udp_frame: one sendto of rgb_bytes
send_simple_udp_frame ==
    /\ ddp_pc = "call"
    /\ mode \notin {"ddp", "wled_udp"}
    /\ sent' = Append(sent, rgb_bytes)
    /\ ddp_pc' = "done"
    /\ UNCHANGED << rgb_bytes, channel, seq, offset, idx, mode >>
    /\ UNCHANGED << lvars, ovars >>

SendNext ==
    \/ SendDdp
    \/ send_wled_realtime_frame
    \/ send_simple_udp_frame
    \/ DdpSendChunk
    \/ DdpReturn

SendSpec == SendInit /\ [][SendNext]_vars

\* ---- remap_serpentine ----------------------------------------------------
\* bytearray(n)
Zeros(n) == [i \in 1..n |-> 0]

\* the slice assignment b[a:c] = v of a bytearray, 0 <= a <= c: the slice,
\* clamped to len(b), is replaced by v whatever the length of v
SetSlice(b, a, c, v) ==
    SubSeq(b, 1, Min(a, Len(b))) \o v \o SubSeq(b, Min(c, Len(b)) + 1, Len(b))

\* a destination one pixel too far to the right
RevDstOffByOne(w, col) == (w - col) * 3

\* dx = (width - 1 - x) * 3
RevDst(w, col) == (w - 1 - col) * 3

\* the rows with an odd number pass through and the even ones are reversed
OddRow(yy) == yy % 2 = 1

\* if y % 2 == 0: the row is stored as it is
EvenRow(yy) == yy % 2 = 0

\* the geometries tried: the small ones and the matrix of the device
Geometries ==
    ((1..MaxW) \X (1..MaxH)) \cup {<< MATRIX_W, MATRIX_H >>}
\* byte i (from 1) of the frame of pattern p; pattern 0 is the black frame
RemapPatterns == {0, 7}
FrameOf(w, h, p) == [i \in 1..(w * h * 3) |-> (i * p) % 256]

\* the call payload = remap_serpentine(frame, width, height, serpentine)
RemapInit ==
    /\ LifecycleInit
    /\ DdpIdle
    /\ ScrollIdle
    /\ \E g \in Geometries, p \in RemapPatterns :
         /\ width = g[1]
         /\ height = g[2]
         /\ frame = FrameOf(g[1], g[2], p)
    /\ serpentine \in BOOLEAN
    /\ arg_bytes = frame
    /\ out = << >>
    /\ y = 0
    /\ rev = << >>
    /\ x = 0
    /\ payload = << >>
    /\ again = << >>
    /\ rm_pc = "call"

\* the call being followed is the second one
SecondCall == rm_pc \in {"call2", "loop2", "rev2"}

\* the return of the call being followed: the first one gives payload
RemapResult(v) ==
    IF SecondCall
      THEN /\ again' = v
           /\ rm_pc' = "done"
           /\ UNCHANGED payload
      ELSE /\ payload' = v
           /\ rm_pc' = "ret1"
           /\ UNCHANGED again

\* if not serpentine: return rgb_bytes
RemapProgressive ==
    /\ rm_pc \in {"call", "call2"}
    /\ ~serpentine
    /\ RemapResult(arg_bytes)
    /\ UNCHANGED << frame, width, height, serpentine, arg_bytes, out, y, rev, x >>
    /\ UNCHANGED << lvars, dvars, svars >>

\* row_stride = width * 3; out = bytearray(len(rgb_bytes)); the loop starts
RemapEnter ==
    /\ rm_pc \in {"call", "call2"}
    /\ serpentine
    /\ out' = Zeros(Len(arg_bytes))
    /\ y' = 0
    /\ rm_pc' = IF SecondCall THEN "loop2" ELSE "loop"
    /\ UNCHANGED << frame, width, height, serpentine, arg_bytes, payload, again,
                    rev, x >>
    /\ UNCHANGED << lvars, dvars, svars >>

\* row = rgb_bytes[y * row_stride:(y + 1) * row_stride]
RemapRowOf(yy) == Slice(arg_bytes, yy * (width * 3), (yy + 1) * (width * 3))

\* one pass of for y in range(height) up to the inner loop: a row that is
\* stored as it is finishes the pass; otherwise rev = bytearray(row_stride)
RemapRow ==
    /\ rm_pc \in {"loop", "loop2"}
    /\ y < height
    /\ IF EvenRow(y)
         THEN /\ out' = SetSlice(out, y * (width * 3), (y + 1) * (width * 3),
                                 RemapRowOf(y))
              /\ y' = y + 1
              /\ UNCHANGED << rev, x, rm_pc >>
         ELSE /\ rev' = Zeros(width * 3)
              /\ x' = 0
              /\ rm_pc' = IF SecondCall THEN "rev2" ELSE "rev"
              /\ UNCHANGED << out, y >>
    /\ UNCHANGED << frame, width, height, serpentine, arg_bytes, payload, again >>
    /\ UNCHANGED << lvars, dvars, svars >>

\* one pass of for x in range(width): rev[dx:dx+3] = row[sx:sx+3]
RemapPixel ==
    /\ rm_pc \in {"rev", "rev2"}
    /\ x < width
    /\ rev' = SetSlice(rev, RevDst(width, x), RevDst(width, x) + 3,
                       Slice(RemapRowOf(y), x * 3, x * 3 + 3))
    /\ x' = x + 1
    /\ UNCHANGED << frame, width, height, serpentine, arg_bytes, out, y, payload,
                    again, rm_pc >>
    /\ UNCHANGED << lvars, dvars, svars >>

\* the inner loop is over: out[y * row_stride:(y + 1) * row_stride] = rev
RemapRowDone ==
    /\ rm_pc \in {"rev", "rev2"}
    /\ ~(x < width)
    /\ out' = SetSlice(out, y * (width * 3), (y + 1) * (width * 3), rev)
    /\ y' = y + 1
    /\ rm_pc' = IF SecondCall THEN "loop2" ELSE "loop"
    /\ UNCHANGED << frame, width, height, serpentine, arg_bytes, payload, again,
                    rev, x >>
    /\ UNCHANGED << lvars, dvars, svars >>

\* return bytes(out)
RemapReturn ==
    /\ rm_pc \in {"loop", "loop2"}
    /\ ~(y < height)
    /\ RemapResult(out)
    /\ UNCHANGED << frame, width, height, serpentine, arg_bytes, out, y, rev, x >>
    /\ UNCHANGED << lvars, dvars, svars >>

\* remap_serpentine(payload, width, height, serpentine): the function is
\* applied to its own result
RemapAgain ==
    /\ rm_pc = "ret1"
    /\ arg_bytes' = payload
    /\ rm_pc' = "call2"
    /\ UNCHANGED << frame, width, height, serpentine, out, y, payload, again,
                    rev, x >>
    /\ UNCHANGED << lvars, dvars, svars >>

RemapNext ==
    \/ RemapProgressive
    \/ RemapEnter
    \/ RemapRow
    \/ RemapPixel
    \/ RemapRowDone
    \/ RemapReturn
    \/ RemapAgain

RemapSpec == RemapInit /\ [][RemapNext]_vars

\* ---- the scroll branch of scroller_worker --------------------------------
\* measure_text_width: max(0, r - l)
TextWidths == 0..MaxTextW

\* a wrap test that lets step reach total_steps
StepWrapLate(st, total) == IF st > total THEN 0 ELSE st

\* if step >= total_steps: step = 0
StepWrap(st, total) == IF st >= total THEN 0 ELSE st

\* text_w = measure_text_width(text, font); total_steps = MATRIX_W + text_w;
\* step = 0; the loop head is next
ScrollInit ==
    /\ LifecycleInit
    /\ DdpIdle
    /\ RemapIdle
    /\ text_w \in TextWidths
    /\ total_steps = MATRIX_W + text_w
    /\ step = 0
    /\ sc_pc = "check"
    /\ shift_px = -1
    /\ nframes = 0

\* STOP_EVENT.set() of a stop_worker() that found the worker alive
ScrollCancel ==
    /\ sc_pc \notin {"idle", "done"}
    /\ ~STOP_EVENT
    /\ STOP_EVENT' = TRUE
    /\ UNCHANGED << SENDER_THREAD, STATE_LOCK, tvars, wvars >>
    /\ UNCHANGED << dvars, rvars, svars >>

\* while not STOP_EVENT.is_set()
ScrollCheck ==
    /\ sc_pc = "check"
    /\ sc_pc' = IF LoopCond THEN "render" ELSE "done"
    /\ UNCHANGED << text_w, total_steps, step, shift_px, nframes >>
    /\ UNCHANGED << lvars, dvars, rvars >>

\* render_scroll_window_frame(..., shift_px=step, ...) and remap_serpentine
ScrollRender ==
    /\ sc_pc = "render"
    /\ shift_px' = step
    /\ sc_pc' = "send"
    /\ UNCHANGED << text_w, total_steps, step, nframes >>
    /\ UNCHANGED << lvars, dvars, rvars >>

\* the frame is sent by the sender of cfg["mode"]
ScrollSend ==
    /\ sc_pc = "send"
    /\ nframes < MaxFrames
    /\ nframes' = nframes + 1
    /\ sc_pc' = "sleep"
    /\ UNCHANGED << text_w, total_steps, step, shift_px >>
    /\ UNCHANGED << lvars, dvars, rvars >>

\* the renderer or sendto() raises: the finally block runs, the thread ends
ScrollError ==
    /\ sc_pc \in {"render", "send"}
    /\ sc_pc' = "done"
    /\ UNCHANGED << text_w, total_steps, step, shift_px, nframes >>
    /\ UNCHANGED << lvars, dvars, rvars >>

\* time.sleep(delay); step += 1; if step >= total_steps: step = 0
ScrollSleep ==
    /\ sc_pc = "sleep"
    /\ step' = StepWrap(step + 1, total_steps)
    /\ sc_pc' = "check"
    /\ UNCHANGED << text_w, total_steps, shift_px, nframes >>
    /\ UNCHANGED << lvars, dvars, rvars >>

ScrollNext ==
    \/ ScrollCancel
    \/ ScrollCheck
    \/ ScrollRender
    \/ ScrollSend
    \/ ScrollError
    \/ ScrollSleep

ScrollSpec == ScrollInit /\ [][ScrollNext]_vars

\* The scheduling the liveness claims rest on: join(timeout=2.0) returns once
\* the worker has ended or the two seconds are over; a handler waiting for
\* STATE_LOCK gets it, since every holder releases it within the join bound;
\* the start of the thread, the loop head and time.sleep() (at most one
\* second) take bounded time. Rendering and sendto() carry no bound, so
\* they get no fairness.
FairSpec ==
    /\ Spec
    /\ \A t \in Threads : WF_vars(JoinReturn(t) \/ JoinTimeout(t))
    /\ \A t \in Threads : SF_vars(StartSpawn(t))
    /\ \A w \in Workers : WF_vars(WorkerInit(w) \/ WorkerInitFail(w))
    /\ \A w \in Workers : WF_vars(WorkerCheck(w))
    /\ \A w \in Workers : WF_vars(WorkerSleep(w))

\* ----------------------------------------------------------------- claims
\* a worker thread that is running its loop with its socket open
Looping(w) == IsAlive(w) /\ SockOpen(w)
NoWorkerAlive == \A w \in Workers : ~IsAlive(w)

\* this step is a successful sock.sendto() of worker w
SendStep(w) ==
    /\ wpc[w] = "send"
    /\ wpc'[w] # "done"
    /\ << wpc'[w], woff'[w] >> # << wpc[w], woff[w] >>

\* C1: at most one transmission loop is alive (running its frame loop with
\* an open socket) in every reachable state, whatever the interleaving of
\* the start and stop handlers.
AtMostOneLoop == Cardinality({w \in Workers : Looping(w)}) <= 1

\* C2: when the stop_worker() call of a /start that found a loop running
\* returns, that loop has ended and closed its socket, so the new loop
\* cannot send a frame before.
StartTearsDownOld ==
    [][\A t \in Threads :
         (tpc[t] = "join" /\ top[t] = "start" /\ tpc'[t] = "spawn")
           => (wpc'[SENDER_THREAD] = "done"
               /\ wclosed'[SENDER_THREAD] = wopened'[SENDER_THREAD])]_vars

\* C3: a /stop on a running loop keeps the cancellation set until the loop
\* has seen it: when the handler returns the loop has ended, its socket is
\* closed and no worker is left sending.
StopEndsLoop ==
    [][\A t \in Threads :
         (tpc[t] = "join" /\ top[t] = "stop" /\ tpc'[t] = "ret")
           => (wpc'[SENDER_THREAD] = "done"
               /\ wclosed'[SENDER_THREAD] = wopened'[SENDER_THREAD])]_vars

\* C4: a /stop that finds no loop running returns at once, without joining,
\* creates no worker and changes none, and leaves the handle None, the
\* cancellation signal clear and the lock free.
StopIdleIsNoop ==
    [][\A t \in Threads :
         (tpc[t] = "idle" /\ top'[t] = "stop" /\ tpc'[t] # "idle" /\ NoWorkerAlive)
           => /\ tpc'[t] = "ret"
              /\ SENDER_THREAD' = None
              /\ ~STOP_EVENT'
              /\ STATE_LOCK' = None
              /\ wvars' = wvars]_vars

\* C4 witness: the only loop ever started was cancelled, which takes one
\* /stop that joined it, and two /stop handlers are at their return: the
\* other one ran on the idle system.
StopIdleWitness ==
    \E t, u \in Threads :
        /\ t # u
        /\ tpc[t] = "ret" /\ top[t] = "stop"
        /\ tpc[u] = "ret" /\ top[u] = "stop"
        /\ nstarts = 1
        /\ wexit[1] = "cancelled"
        /\ SENDER_THREAD = None

\* the exits of scroller_worker that lie inside its try block
LoopExits == {"cancelled", "render_error", "send_error"}

\* C5: no worker ever opens a second socket or closes more often than it
\* opened; inside the loop the socket is open (no sendto on a closed one);
\* a worker that has ended holds no open socket; and one that left the loop
\* by cancellation or by a render or send error opened exactly one socket
\* and closed it exactly once.
SocketClosedOnce ==
    \A w \in Workers :
        /\ wopened[w] <= 1
        /\ wclosed[w] <= wopened[w]
        /\ (wpc[w] \in {"check", "render", "send", "sleep"} => SockOpen(w))
        /\ (wpc[w] = "done" => ~SockOpen(w))
        /\ (wexit[w] \in LoopExits => wopened[w] = 1 /\ wclosed[w] = 1)

\* C5 witness: one worker has left the loop on a send error and another on
\* cancellation.
SocketClosedWitness ==
    \E v, w \in Workers :
        /\ wpc[v] = "done" /\ wexit[v] = "send_error"
        /\ wpc[w] = "done" /\ wexit[w] = "cancelled"

\* C6: a worker whose sendto() raised has ended, with its socket closed,
\* and sends nothing more; a /start that finds the handle on such a worker
\* does not wait for it and goes on to create the new loop.
SendErrorEndsLoop ==
    [][/\ \A w \in Workers :
            /\ (wexit'[w] = "send_error" => wpc'[w] = "done" /\ ~SockOpen(w)')
            /\ (wexit[w] = "send_error" => ~SendStep(w))
       /\ \A t \in Threads :
            (/\ tpc[t] = "idle" /\ top'[t] = "start"
             /\ SENDER_THREAD # None
             /\ wexit[SENDER_THREAD] = "send_error")
              => tpc'[t] = "spawn"]_vars

\* C6 witness: after a loop died of a send error in the middle of a DDP
\* frame a later /start has a new loop running.
SendErrorWitness ==
    \E v, w \in Workers :
        /\ v < w
        /\ wexit[v] = "send_error"
        /\ SENDER_THREAD = w
        /\ wpc[w] = "sleep"

\* C7: a /start that has called stop_worker() gets to its return, also when
\* the loop it found never sees the cancellation; and the thread it creates
\* is the new handle, runs the cfg of this request and starts with the
\* cancellation signal clear.
StartCompletes ==
    /\ \A t \in Threads :
         (top[t] = "start" /\ tpc[t] \in {"join", "spawn"})
            ~> (top[t] = "start" /\ tpc[t] = "ret")
    /\ [][\A t \in Threads :
            (tpc[t] = "spawn" /\ tpc'[t] = "ret")
              => /\ SENDER_THREAD' # None
                 /\ wpc[SENDER_THREAD'] = "unborn"
                 /\ wpc'[SENDER_THREAD'] = "init"
                 /\ wcfg'[SENDER_THREAD'] = tcfg[t]
                 /\ ~STOP_EVENT']_vars

\* C7 witness: a /start has returned with its new loop running while the
\* loop it replaced, which never saw the cancellation, is still running.
StartCompletesWitness ==
    \E t \in Threads, v, w \in Workers :
        /\ tpc[t] = "ret" /\ top[t] = "start"
        /\ v < w
        /\ SENDER_THREAD = w
        /\ Looping(w)
        /\ Looping(v)


\* ---- what a receiver reads off a DDP datagram ----------------------------
HeaderLen == 10
ChunkPayload(d) == SubSeq(d, HeaderLen + 1, Len(d))
\* bytes 4-7, big-endian
ChunkOffset(d) == ((d[5] * 256 + d[6]) * 256 + d[7]) * 256 + d[8]
\* bytes 8-9, big-endian
ChunkLength(d) == d[9] * 256 + d[10]
\* bit 6 of the flags byte
ChunkPush(d) == (d[1] \div 64) % 2 = 1

RECURSIVE PayloadsUpTo(_, _)
\* the payloads of the first n datagrams of ds, concatenated
PayloadsUpTo(ds, n) ==
    IF n = 0 THEN << >> ELSE PayloadsUpTo(ds, n - 1) \o ChunkPayload(ds[n])

\* C8: the offset field of every chunk is the total length of the chunk
\* payloads sent before it, its length field is the length of its own
\* payload, and once the call has returned the chunk payloads in the order
\* sent make up the payload again.
DdpReconstructs ==
    /\ \A i \in 1..Len(sent) :
         /\ Len(sent[i]) >= HeaderLen
         /\ ChunkOffset(sent[i]) = Len(PayloadsUpTo(sent, i - 1))
         /\ ChunkLength(sent[i]) = Len(ChunkPayload(sent[i]))
    /\ (ddp_pc = "done" => PayloadsUpTo(sent, Len(sent)) = rgb_bytes)

\* C8 witness: a payload of four chunks, the last one shorter, has been sent.
DdpReconstructsWitness ==
    /\ ddp_pc = "done"
    /\ Len(sent) = 4
    /\ Len(rgb_bytes) % MAX_PAYLOAD = 3

\* exactly the last datagram has PUSH set, all before it have flags 0x01
PushOnLastOnly ==
    /\ Len(sent) >= 1
    /\ \A i \in 1..Len(sent) :
         IF i = Len(sent) THEN sent[i][1] = 65 /\ ChunkPush(sent[i])
                          ELSE sent[i][1] = 1 /\ ~ChunkPush(sent[i])

ChunkSizes == [i \in 1..Len(sent) |-> Len(ChunkPayload(sent[i]))]
ChunkOffsets == [i \in 1..Len(sent) |-> ChunkOffset(sent[i])]

\* C10: no chunk payload exceeds 1200 bytes; every chunk but the last is a
\* multiple of 3 bytes long; 3000 bytes go out as [1200, 1200, 600] at
\* offsets [0, 1200, 2400]; a payload longer than 1200 bytes, the 3072-byte
\* matrix frame among them, is never one datagram.
DdpChunkSizes ==
    /\ \A i \in 1..Len(sent) :
         /\ Len(ChunkPayload(sent[i])) <= 1200
         /\ (i < Len(sent) => Len(ChunkPayload(sent[i])) % 3 = 0)
    /\ (ddp_pc = "done" /\ Len(rgb_bytes) = 3000
          => ChunkSizes = << 1200, 1200, 600 >> /\ ChunkOffsets = << 0, 1200, 2400 >>)
    /\ (ddp_pc = "done" /\ Len(rgb_bytes) > 1200 => Len(sent) > 1)

\* C10 witness: the 3000-byte payload has been sent.
DdpChunkSizesWitness ==
    /\ ddp_pc = "done"
    /\ Len(rgb_bytes) = 3000
    /\ Len(sent) = 3

\* C11: chunk number i (from 0) of a frame carries the sequence byte
\* (seed + i) mod 256, so the bytes go up by one from the seed and wrap from
\* 255 to 0, and the channel byte of every chunk is the channel passed in.
DdpSeqAndChannel ==
    \A i \in 1..Len(sent) :
        /\ sent[i][3] = (seq + (i - 1)) % 256
        /\ (i > 1 => sent[i][3] = (sent[i - 1][3] + 1) % 256)
        /\ sent[i][2] = channel

\* C11 witness: four chunks sent from seed 254 on channel 255, so that the
\* sequence byte has wrapped.
DdpSeqWitness ==
    /\ ddp_pc = "done"
    /\ seq = 254
    /\ channel = 255
    /\ Len(sent) = 4
    /\ sent[3][3] = 0

\* ---- what a WLED receiver reads off a DNRGB datagram ---------------------
DnrgbHeaderLen == 4
CHUNK_PIXELS == 489
DnrgbPayload(d) == SubSeq(d, DnrgbHeaderLen + 1, Len(d))
\* bytes 2-3, big-endian
DnrgbStart(d) == d[3] * 256 + d[4]
DnrgbPixels(d) == Len(DnrgbPayload(d)) \div 3

RECURSIVE DnrgbPayloadsUpTo(_, _)
\* the payloads of the first n datagrams of ds, concatenated
DnrgbPayloadsUpTo(ds, n) ==
    IF n = 0 THEN << >> ELSE DnrgbPayloadsUpTo(ds, n - 1) \o DnrgbPayload(ds[n])

\* C12: in wled_udp mode every datagram starts with the 4-byte header
\* (protocol id 4, a timeout byte in 1..255, the start pixel index in two
\* bytes, big-endian), carries at most 489 pixels, has as start index the
\* number of pixels in the chunks before it, and the chunk payloads in the
\* order sent make up the pixel buffer.
WledDnrgbEncoding ==
    (mode = "wled_udp" /\ ddp_pc = "done") =>
        /\ \A i \in 1..Len(sent) :
             /\ Len(sent[i]) >= DnrgbHeaderLen
             /\ sent[i][1] = 4
             /\ sent[i][2] \in 1..255
             /\ DnrgbPixels(sent[i]) <= CHUNK_PIXELS
             /\ DnrgbStart(sent[i]) * 3 = Len(DnrgbPayloadsUpTo(sent, i - 1))
        /\ DnrgbPayloadsUpTo(sent, Len(sent)) = rgb_bytes

\* ---- what a receiver of the simple protocol reads ------------------------
\* b"ST16x64"
SimpleTag == << 83, 84, 49, 54, 120, 54, 52 >>

\* C13: in simple mode the one datagram sent is the 7-byte tag, the width
\* byte, the height byte and then the whole payload, 9 + len(payload) bytes
\* in all.
SimpleEncoding ==
    (mode = "simple" /\ ddp_pc = "done") =>
        /\ Len(sent) = 1
        /\ Len(sent[1]) = 9 + Len(rgb_bytes)
        /\ SubSeq(sent[1], 1, 7) = SimpleTag
        /\ sent[1][8] = MATRIX_W
        /\ sent[1][9] = MATRIX_H
        /\ SubSeq(sent[1], 10, Len(sent[1])) = rgb_bytes

\* ---- the pixel order of a buffer -----------------------------------------
\* byte c (1..3) of the pixel in column col of row r of buffer b, rows and
\* columns from 0
PixelByte(b, w, r, col, c) == b[(r * w + col) * 3 + c]

\* C14: reordering twice with serpentine = true gives the buffer back, for
\* every buffer of width * height * 3 bytes.
SerpentineInvolution ==
    (rm_pc = "done" /\ serpentine) => again = frame

\* C14 witness: the second call on a reordered frame of the 64 x 16 matrix,
\* which differs from the frame, has returned.
SerpentineInvolutionWitness ==
    /\ rm_pc = "done"
    /\ serpentine
    /\ width = MATRIX_W /\ height = MATRIX_H
    /\ payload # frame

\* C15: with serpentine = true the result has the size of the buffer, every
\* even row is unchanged byte for byte, and every odd row has its pixels in
\* reversed order, each pixel with its R, G, B bytes in order; with
\* serpentine = false the result is the buffer.
SerpentineRows ==
    rm_pc \notin {"call", "loop", "rev"} =>
        IF serpentine
          THEN /\ Len(payload) = Len(frame)
               /\ \A r \in 0..(height - 1), col \in 0..(width - 1), c \in 1..3 :
                    PixelByte(payload, width, r, col, c) =
                        PixelByte(frame, width, r,
                                  IF r % 2 = 0 THEN col ELSE width - 1 - col, c)
          ELSE payload = frame

\* C15 witness: a frame of the 64 x 16 matrix has been reordered and the
\* first pixel of row 1 is now its last.
SerpentineRowsWitness ==
    /\ rm_pc = "ret1"
    /\ serpentine
    /\ width = MATRIX_W /\ height = MATRIX_H
    /\ PixelByte(payload, width, 1, width - 1, 1) = PixelByte(frame, width, 1, 0, 1)
    /\ PixelByte(payload, width, 1, width - 1, 1) # PixelByte(frame, width, 1, width - 1, 1)

\* the protocol modes of a DisplayConfig
ProtocolModes == {"simple", "wled_udp", "ddp"}

\* C16: a /start whose mode is none of the protocol modes is rejected
\* before the loop starts: no worker is created for it and no datagram is
\* sent on its behalf.
ConfigErrorRejected ==
    [][\A w \in Workers :
         /\ (wpc[w] = "unborn" /\ wpc'[w] # "unborn")
               => wcfg'[w].mode \in ProtocolModes
         /\ SendStep(w) => wcfg[w].mode \in ProtocolModes]_vars

\* C17: once the cancellation signal is set a loop begins neither the
\* rendering of a frame nor an inter-frame sleep.
CancelBeforeFrameAndSleep ==
    [][\A w \in Workers :
         STOP_EVENT =>
            /\ ~(wpc[w] # "render" /\ wpc'[w] = "render")
            /\ ~(wpc[w] # "sleep" /\ wpc'[w] = "sleep")]_vars

\* C18: in scroll mode the position starts at 0, goes up by exactly 1 after
\* each frame sent, stays within 0 .. 64 + text_w - 1 and wraps to 0 after
\* the last one: frame number n (from 0) is rendered at position
\* n mod (64 + text_w), cycle after cycle.
ScrollCyclic ==
    sc_pc # "idle" =>
        LET period == MATRIX_W + text_w IN
        /\ 0 <= step /\ step < period
        /\ (sc_pc \in {"check", "render", "send", "done"} => step = nframes % period)
        /\ (sc_pc = "sleep" => step = (nframes - 1) % period)
        /\ (sc_pc \in {"send", "sleep"} => shift_px = step)
        /\ (nframes = 0 => step = 0)

\* C18 witness: with a text one pixel wide the 131st frame, the first of
\* the third cycle of 65, has been sent at position 0.
ScrollCyclicWitness ==
    /\ text_w = 1
    /\ nframes = 131
    /\ sc_pc = "sleep"
    /\ shift_px = 0

\* no request handler is inside start() or stop()
Quiet == STATE_LOCK = None /\ \A t \in Threads : tpc[t] \in {"idle", "ret"}

\* C19: whenever no handler is inside start() or stop(), every worker that
\* is alive is the one the handle names; and when the stop_worker() of a
\* /stop returns no worker is alive.
NoOrphanWorker ==
    [][/\ Quiet' => \A w \in Workers : IsAlive(w)' => SENDER_THREAD' = w
       /\ \A t \in Threads :
            (top'[t] = "stop" /\ tpc[t] # "ret" /\ tpc'[t] = "ret")
               => NoWorkerAlive']_vars

\* C20: STOP_EVENT is set only while a handler holds STATE_LOCK inside its
\* join; no thread is ever created while it is set, so what a loop sees
\* was raised after the loop was created; and a loop leaves by
\* cancellation only while the event is set.
EventOnlyUnderLock ==
    [][/\ STOP_EVENT' => (STATE_LOCK' # None /\ tpc'[STATE_LOCK'] = "join")
       /\ \A w \in Workers :
            /\ (wpc[w] = "unborn" /\ wpc'[w] # "unborn")
                  => (~STOP_EVENT /\ ~STOP_EVENT' /\ STATE_LOCK = None)
            /\ (wexit[w] # "cancelled" /\ wexit'[w] = "cancelled")
                  => (STOP_EVENT /\ STATE_LOCK # None)]_vars

\* C20 witness: a loop was cancelled and the loop started after it is
\* rendering, the event being clear again.
EventOnlyUnderLockWitness ==
    \E v, w \in Workers :
        /\ v < w
        /\ wexit[v] = "cancelled"
        /\ SENDER_THREAD = w
        /\ wpc[w] = "render"
        /\ ~STOP_EVENT

====
